---- MODULE Spec2Model ----
(***************************************************************************)
(* A model of the Cross3D infill core (src/src/infill/Cross3D.cpp): the    *)
(* prism tree built by createTree, the adjacency rewiring of subdivide,    *)
(* the work queue of createMinimalDensityPattern and the slice walker      *)
(* (getBottomSequence, advanceSequence).                                   *)
(*                                                                         *)
(* Coordinates are integer microns as in the source.  Floating point       *)
(* quantities are kept as exact fractions: a density is a number of        *)
(* DensityDen-ths, and the ratio actualized volume / volume is compared by *)
(* cross multiplication after cancelling the common z height.              *)
(***************************************************************************)
EXTENDS Integers, Sequences, FiniteSets, TLC

(***************************************************************************)
(* Bounds of the model.                                                    *)
(***************************************************************************)
\* the largest max_depth the constructor is called with
MaxDepth == 4
\* the number of layer heights the walker is advanced over above aabb.max.z
MaxOvershoot == 1
\* the largest number of layers one advanceSequence call moves up
MaxJump == 2
\* the longest work queue; a longer one is a queue that grows for ever
MaxQueue == 40
\* the most subdivide calls; more are a loop that subdivides for ever
MaxSubdivisions == 100
\* longest chain of Triangle::subdivide steps followed from a level-1 triangle
MaxSteps == 30

(***************************************************************************)
(* Program constants.                                                      *)
(***************************************************************************)
LEFT == 0
RIGHT == 1
UP == 2
DOWN == 3
\* Direction::COUNT, the value getNumberOfSides() returns
NumberOfSides == 4
\* the coordinate tolerance of isHalfCube, isNextTo and areCollinear
CoordTolerance == 10
\* the area tolerance of isNextTo (UP / DOWN)
AreaTolerance == 100

(***************************************************************************)
(* The inputs of the constructor that the model draws from.                *)
(***************************************************************************)
\* xy sizes of the bounding box (spec scenario 1: a 10,000 micron cube)
AabbSizes == {10000}
\* z heights of the bounding box: the cube, and the level-1 hypotenuse
AabbHeights == {10000, 14142}
\* nominal extrusion width
LineWidths == {400}
\* densities are fractions with this denominator
DensityDen == 10
\* density fields with a hot point: the density of the boxes that hold the
\* point and the density of every other box
PointDensities == {<<1, 0>>, <<10, 0>>, <<10, 1>>}
\* density fields with the same density everywhere
UniformDensities == {0, 1, 10}
\* the grid the hot point of the density field is drawn from
HotGrid == {1250, 3750, 6250, 8750}
HotGridZ == {1250, 8750}
\* the layer heights the walker is advanced by
LayerHeights == {1250, 5000}

Point(x, y) == [X |-> x, Y |-> y]
Point3(x, y, z) == [x |-> x, y |-> y, z |-> z]

Abs(n) == IF n < 0 THEN -n ELSE n
Min(m, n) == IF m < n THEN m ELSE n
Max(m, n) == IF m > n THEN m ELSE n

\* C++ integer division truncates toward zero
CDiv(m, n) ==
    IF (m >= 0) = (n > 0) THEN Abs(m) \div Abs(n) ELSE -(Abs(m) \div Abs(n))

PointSub(p, q) == Point(p.X - q.X, p.Y - q.Y)
PointAdd(p, q) == Point(p.X + q.X, p.Y + q.Y)
PointDiv(p, n) == Point(CDiv(p.X, n), CDiv(p.Y, n))
dot(p, q) == p.X * q.X + p.Y * q.Y
\* the z component of the cross product
cross(p, q) == p.X * q.Y - p.Y * q.X
vSize2(p) == p.X * p.X + p.Y * p.Y

RECURSIVE ISqrtIn(_, _, _)
ISqrtIn(n, lo, hi) ==
    IF lo >= hi THEN lo
    ELSE LET m == (lo + hi + 1) \div 2
         IN IF m * m <= n THEN ISqrtIn(n, m, hi) ELSE ISqrtIn(n, lo, m - 1)

\* floor of the square root; 46340 is the largest root of a 32 bit value
ISqrt(n) == ISqrtIn(n, 0, 46340)

\* vSize: the length of a vector, converted to coord_t
vSize(p) == ISqrt(vSize2(p))

(***************************************************************************)
(* LineSegment and Range                                                   *)
(***************************************************************************)
LineSegment(from, to) == [from |-> from, to |-> to]
SegReverse(s) == LineSegment(s.to, s.from)
SegVector(s) == PointSub(s.to, s.from)

Range(lo, hi) == [min |-> lo, max |-> hi]
RangeOverlap(r, other) == ~(other.min > r.max \/ other.max < r.min)
RangeExpanded(r, amount) == Range(r.min - amount, r.max + amount)
RangeIntersection(r, other) == Range(Max(r.min, other.min), Min(r.max, other.max))
RangeSize(r) == r.max - r.min
RangeInside(r, v) == r.min <= v /\ v <= r.max

(***************************************************************************)
(* Triangle                                                                *)
(***************************************************************************)
Directions == {"AB_TO_BC", "AC_TO_AB", "AC_TO_BC"}

Triangle(sc, a, b, dir, scil) ==
    [straight_corner |-> sc, a |-> a, b |-> b, dir |-> dir,
     straight_corner_is_left |-> scil]

getFromEdge(t) ==
    LET ret == CASE t.dir = "AB_TO_BC" -> LineSegment(t.a, t.b)
                 [] t.dir = "AC_TO_AB" -> LineSegment(t.straight_corner, t.a)
                 [] t.dir = "AC_TO_BC" -> LineSegment(t.straight_corner, t.a)
    IN IF ~t.straight_corner_is_left THEN SegReverse(ret) ELSE ret

getToEdge(t) ==
    LET ret == CASE t.dir = "AB_TO_BC" -> LineSegment(t.straight_corner, t.b)
                 [] t.dir = "AC_TO_AB" -> LineSegment(t.b, t.a)
                 [] t.dir = "AC_TO_BC" -> LineSegment(t.straight_corner, t.b)
    IN IF ~t.straight_corner_is_left THEN SegReverse(ret) ELSE ret

\* a variant that never swaps the second and the third corner
toPolygonUnswapped(t) == <<t.straight_corner, t.a, t.b>>

\* the corners in the order toPolygon adds them
toPolygon(t) ==
    IF ~t.straight_corner_is_left
    THEN <<t.straight_corner, t.b, t.a>>
    ELSE <<t.straight_corner, t.a, t.b>>

\* twice the signed area of a three point polygon (counter-clockwise positive)
PolygonArea2(p) ==
    cross(p[1], p[2]) + cross(p[2], p[3]) + cross(p[3], p[1])

\* a variant in which both children keep the direction of the parent
ChildDirsInherited(dir) == <<dir, dir>>

ChildDirs(dir) ==
    CASE dir = "AB_TO_BC" -> <<"AC_TO_BC", "AC_TO_AB">>
      [] dir = "AC_TO_AB" -> <<"AB_TO_BC", "AC_TO_BC">>
      [] dir = "AC_TO_BC" -> <<"AB_TO_BC", "AC_TO_AB">>

\* a variant whose second child takes its corners a and b the other way round
TriangleSubdivideSwapped(t) ==
    LET middle == PointDiv(PointAdd(t.a, t.b), 2)
    IN << Triangle(middle, t.a, t.straight_corner, ChildDirs(t.dir)[1],
                   ~t.straight_corner_is_left),
          Triangle(middle, t.b, t.straight_corner, ChildDirs(t.dir)[2],
                   ~t.straight_corner_is_left) >>

TriangleSubdivide(t) ==
    LET middle == PointDiv(PointAdd(t.a, t.b), 2)
        dirs == ChildDirs(t.dir)
    IN << Triangle(middle, t.a, t.straight_corner, dirs[1], ~t.straight_corner_is_left),
          Triangle(middle, t.straight_corner, t.b, dirs[2], ~t.straight_corner_is_left) >>

(***************************************************************************)
(* Prism                                                                   *)
(***************************************************************************)
Prism(triangle, z_min, z_max, is_expanding) ==
    [triangle |-> triangle, z_range |-> Range(z_min, z_max),
     is_expanding |-> is_expanding]

\* a variant that takes every prism for a half-cube
isHalfCubeAlways(p) == TRUE

\* a variant that measures the hypotenuse a-b instead of the leg
isHalfCubeHypotenuse(p) ==
    Abs(vSize(PointSub(p.triangle.a, p.triangle.b))
        - (p.z_range.max - p.z_range.min)) < CoordTolerance

isHalfCube(p) ==
    Abs(vSize(PointSub(p.triangle.straight_corner, p.triangle.b))
        - (p.z_range.max - p.z_range.min)) < CoordTolerance

isQuarterCube(p) ==
    Abs(vSize(PointSub(p.triangle.a, p.triangle.b))
        - (p.z_range.max - p.z_range.min)) < CoordTolerance

(***************************************************************************)
(* Cell and Link                                                           *)
(***************************************************************************)
\* the prism of the root cell is never initialised and never read
NoPrism == Prism(Triangle(Point(0, 0), Point(0, 0), Point(0, 0), "AC_TO_AB", TRUE),
                 0, 0, TRUE)

NoChildren == <<-1, -1, -1, -1>>
NoLinks == << <<>>, <<>>, <<>>, <<>> >>

\* Cell(prism, index, depth): a cell without children, links or density
NewCell(prism, index, depth) ==
    [prism |-> prism, index |-> index, depth |-> depth,
     children |-> NoChildren, is_subdivided |-> FALSE,
     minimally_required_density |-> 0,
     adjacent_cells |-> NoLinks]

\* A Link is a list node: id is the identity of the node (what an iterator
\* designates), reverse the identity of the node of the back-link.
Link(id, to_index, reverse) == [id |-> id, to_index |-> to_index, reverse |-> reverse]

opposite(in) ==
    CASE in = LEFT -> RIGHT
      [] in = RIGHT -> LEFT
      [] in = UP -> DOWN
      [] in = DOWN -> UP
      [] OTHER -> NumberOfSides

getChildCount(cell) == IF cell.children[3] < 0 THEN 2 ELSE 4

\* cells are addressed by their 0-based index, as in the source
CellAt(cells, idx) == cells[idx + 1]

(***************************************************************************)
(* createTree                                                              *)
(***************************************************************************)
\* F applied to the value of v: the argument is computed before the call, as
\* in the source, not on demand
Strict(F(_), v) == CHOOSE r \in {F(x) : x \in {v}} : TRUE

RECURSIVE createTreeRec(_, _, _)
\* one iteration of the two nested child loops of createTree(Cell&, int)
createTreeChild(cells, parent_idx, md, child_z_idx, child_xy_idx) ==
    LET parent == CellAt(cells, parent_idx)
        parent_prism == parent.prism
        subdivided_triangles == TriangleSubdivide(parent_prism.triangle)
        child_count == IF isHalfCube(parent_prism) THEN 2 ELSE 4
        z_mid == CDiv(parent_prism.z_range.max + parent_prism.z_range.min, 2)
        lower_z_max == IF child_count = 2 THEN parent_prism.z_range.max ELSE z_mid
        child_z_min == IF child_z_idx = 0 THEN parent_prism.z_range.min ELSE lower_z_max
        child_z_max == IF child_z_idx = 0 THEN lower_z_max ELSE parent_prism.z_range.max
        child_idx == child_z_idx * 2 + child_xy_idx
        flips == parent_prism.triangle.dir # "AC_TO_BC" /\ child_xy_idx = 1
        lower_expanding == IF flips THEN ~parent_prism.is_expanding
                           ELSE parent_prism.is_expanding
        is_expanding == IF child_z_idx = 1 THEN ~lower_expanding ELSE lower_expanding
        child_data_index == Len(cells)
        child == NewCell(Prism(subdivided_triangles[child_xy_idx + 1],
                               child_z_min, child_z_max, is_expanding),
                         child_data_index, parent.depth + 1)
    IN IF child_z_idx = child_count \div 2
       THEN [cells EXCEPT ![parent_idx + 1].children[child_idx + 1] = -1]
       ELSE Strict(LAMBDA grown : createTreeRec(grown, child_data_index, md),
                   Append([cells EXCEPT ![parent_idx + 1].children[child_idx + 1]
                                            = child_data_index],
                          child))

createTreeRec(cells, sub_tree_root, md) ==
    IF CellAt(cells, sub_tree_root).depth >= md
    THEN [cells EXCEPT ![sub_tree_root + 1].children = NoChildren]
    ELSE Strict(LAMBDA c2 : createTreeChild(c2, sub_tree_root, md, 1, 1),
         Strict(LAMBDA c1 : createTreeChild(c1, sub_tree_root, md, 1, 0),
         Strict(LAMBDA c0 : createTreeChild(c0, sub_tree_root, md, 0, 1),
                createTreeChild(cells, sub_tree_root, md, 0, 0))))

\* the bounding box of a prism, the argument of the density provider
CellBox(cell) ==
    LET t == cell.prism.triangle
        xs == {t.straight_corner.X, t.a.X, t.b.X}
        ys == {t.straight_corner.Y, t.a.Y, t.b.Y}
        lo(S) == CHOOSE v \in S : \A w \in S : v <= w
        hi(S) == CHOOSE v \in S : \A w \in S : v >= w
    IN [min |-> Point3(lo(xs), lo(ys), cell.prism.z_range.min),
        max |-> Point3(hi(xs), hi(ys), cell.prism.z_range.max)]

\* The density provider: a pure function of the box.  The field of the model
\* is hot in the boxes that hold one of its hot points and cold elsewhere.
DensityOf(provider, box) ==
    IF \E p \in provider.hot_points :
          /\ box.min.x <= p.x /\ p.x <= box.max.x
          /\ box.min.y <= p.y /\ p.y <= box.max.y
          /\ box.min.z <= p.z /\ p.z <= box.max.z
    THEN provider.hot
    ELSE provider.cold

getDensity(provider, cell) == DensityOf(provider, CellBox(cell))

RECURSIVE setSpecificationAllowance(_, _, _)
\* the loop over the children of setSpecificationAllowance, from child k on
RECURSIVE allowanceChildren(_, _, _, _)
allowanceChildren(cells, provider, idx, k) ==
    IF k > 4 \/ CellAt(cells, idx).children[k] < 0
    THEN cells
    ELSE LET child_idx == CellAt(cells, idx).children[k]
             done == setSpecificationAllowance(cells, provider, child_idx)
             child == CellAt(done, child_idx)
         IN allowanceChildren(
                [done EXCEPT ![idx + 1].minimally_required_density =
                    Max(@, child.minimally_required_density)],
                provider, idx, k + 1)

setSpecificationAllowance(cells, provider, sub_tree_root) ==
    IF CellAt(cells, sub_tree_root).children[1] >= 0
    THEN allowanceChildren(cells, provider, sub_tree_root, 1)
    ELSE [cells EXCEPT ![sub_tree_root + 1].minimally_required_density =
              getDensity(provider, CellAt(cells, sub_tree_root))]

\* createTree(): the root, the two level-1 prisms and their subtrees
createTree(box, md, provider) ==
    LET root == [NewCell(NoPrism, 0, 0) EXCEPT !.children = <<1, -1, -1, -1>>]
        first_triangle == Triangle(Point(box.min.x, box.max.y),
                                   Point(box.min.x, box.min.y),
                                   Point(box.max.x, box.max.y), "AC_TO_AB", TRUE)
        first_prism == Prism(first_triangle, box.min.z, box.max.z, TRUE)
        with_first == createTreeRec(<<root, NewCell(first_prism, 1, 1)>>, 1, md)
        second_triangle == Triangle(Point(box.max.x, box.min.y),
                                    Point(box.max.x, box.max.y),
                                    Point(box.min.x, box.min.y), "AB_TO_BC", TRUE)
        second_prism == Prism(second_triangle, box.min.z, box.max.z, TRUE)
        second_child_index == Len(with_first)
        with_second == createTreeRec(
            Append([with_first EXCEPT ![1].children[2] = second_child_index],
                   NewCell(second_prism, second_child_index, 1)),
            second_child_index, md)
    IN setSpecificationAllowance(with_second, provider, 0)

(***************************************************************************)
(* Density test                                                            *)
(***************************************************************************)
\* |from_middle - to_middle| of getActualizedVolume; the actualized volume is
\* line_width * this length * z height
ActualizedLength(cell) ==
    LET triangle == cell.prism.triangle
        ac_middle == PointDiv(PointAdd(triangle.a, triangle.straight_corner), 2)
        bc_middle == PointDiv(PointAdd(triangle.b, triangle.straight_corner), 2)
        ab_middle == PointDiv(PointAdd(triangle.a, triangle.b), 2)
        from_middle == CASE triangle.dir = "AC_TO_AB" -> ac_middle
                         [] triangle.dir = "AC_TO_BC" -> ac_middle
                         [] triangle.dir = "AB_TO_BC" -> ab_middle
        to_middle == CASE triangle.dir = "AC_TO_AB" -> ab_middle
                       [] triangle.dir = "AC_TO_BC" -> bc_middle
                       [] triangle.dir = "AB_TO_BC" -> bc_middle
    IN vSize(PointSub(from_middle, to_middle))

\* twice the triangle area setVolume uses: |straight_corner - a|^2; the
\* volume is half of it times the z height
VolumeArea2(cell) ==
    vSize2(PointSub(cell.prism.triangle.straight_corner, cell.prism.triangle.a))

\* getActualizedVolume(cell) / cell.volume < density / DensityDen, with the
\* z height cancelled on both sides
DensityBelow(lw, cell, density) ==
    2 * lw * ActualizedLength(cell) * DensityDen < density * VolumeArea2(cell)

\* a variant that asks for half the required density only
shouldBeSubdividedHalf(lw, cell) ==
    DensityBelow(lw, cell, cell.minimally_required_density \div 2)

shouldBeSubdivided(lw, cell) ==
    DensityBelow(lw, cell, cell.minimally_required_density)

(***************************************************************************)
(* Constraints                                                             *)
(***************************************************************************)
\* a variant that lets a neighbour lag two levels behind
isConstrainedByTwoLevels(constrainee, constrainer) ==
    constrainer.depth + 1 < constrainee.depth

\* a variant under which cells of equal depth constrain each other
isConstrainedByOrEqual(constrainee, constrainer) ==
    constrainer.depth <= constrainee.depth

isConstrainedBy(constrainee, constrainer) == constrainer.depth < constrainee.depth

\* a variant that looks at the LEFT and RIGHT lists only
isConstrainedSideways(cells, cell) ==
    \E side \in {LEFT + 1, RIGHT + 1} :
        \E k \in 1..Len(cell.adjacent_cells[side]) :
            CellAt(cells, cell.adjacent_cells[side][k].to_index).depth < cell.depth

isConstrained(cells, cell) ==
    \E side \in 1..NumberOfSides :
        \E k \in 1..Len(cell.adjacent_cells[side]) :
            isConstrainedBy(cell, CellAt(cells, cell.adjacent_cells[side][k].to_index))

canSubdivide(cells, md, cell) ==
    IF cell.depth >= md \/ isConstrained(cells, cell) THEN FALSE ELSE TRUE

(***************************************************************************)
(* isNextTo                                                                *)
(***************************************************************************)
\* LinearAlg2D::areCollinear: both ends of b lie on the line through a,
\* within the coordinate tolerance
areCollinear(a, b) ==
    LET a_vec == SegVector(a)
        a_size == vSize(a_vec)
        off(p) == Abs(CDiv(cross(a_vec, PointSub(p, a.from)), a_size))
    IN a_size > 0 /\ off(b.from) < CoordTolerance /\ off(b.to) < CoordTolerance

\* p lies in the closed triangle with counter-clockwise corners poly
InsidePolygon(poly, p) ==
    /\ cross(PointSub(poly[2], poly[1]), PointSub(p, poly[1])) >= 0
    /\ cross(PointSub(poly[3], poly[2]), PointSub(p, poly[2])) >= 0
    /\ cross(PointSub(poly[1], poly[3]), PointSub(p, poly[3])) >= 0

\* Twice the area of Polygon::intersection of two triangles of the tree.  Two
\* triangles obtained by repeated bisection are nested or have disjoint
\* interiors, so the intersection is the smaller one or is empty.
IntersectionArea2(a_polygon, b_polygon) ==
    LET a_area == PolygonArea2(a_polygon)
        b_area == PolygonArea2(b_polygon)
        small == IF a_area <= b_area THEN a_polygon ELSE b_polygon
        big == IF a_area <= b_area THEN b_polygon ELSE a_polygon
    IN IF \A k \in 1..3 : InsidePolygon(big, small[k])
       THEN Min(a_area, b_area)
       ELSE 0

\* a variant whose UP and DOWN branch does not compare the z ranges
isNextToAnyHeight(a, b, side) ==
    IF side = UP \/ side = DOWN
    THEN Abs(IntersectionArea2(toPolygon(a.prism.triangle), toPolygon(b.prism.triangle))
             - Min(PolygonArea2(toPolygon(a.prism.triangle)),
                   PolygonArea2(toPolygon(b.prism.triangle)))) < 2 * AreaTolerance
    ELSE LET a_edge == IF side = LEFT THEN getFromEdge(a.prism.triangle)
                       ELSE getToEdge(a.prism.triangle)
             b_edge == IF side = LEFT THEN getToEdge(b.prism.triangle)
                       ELSE getFromEdge(b.prism.triangle)
             a_size == vSize(SegVector(a_edge))
             p_from == CDiv(dot(PointSub(b_edge.from, a_edge.from), SegVector(a_edge)), a_size)
             p_to == CDiv(dot(PointSub(b_edge.to, a_edge.from), SegVector(a_edge)), a_size)
         IN /\ areCollinear(a_edge, b_edge)
            /\ RangeSize(RangeIntersection(Range(0, a_size),
                                           Range(Min(p_from, p_to), Max(p_from, p_to))))
                   > CoordTolerance

isNextTo(a, b, side) ==
    IF side = UP \/ side = DOWN
    THEN IF ~RangeOverlap(a.prism.z_range, RangeExpanded(b.prism.z_range, CoordTolerance))
         THEN FALSE
         ELSE LET a_polygon == toPolygon(a.prism.triangle)
                  a_area == PolygonArea2(a_polygon)
                  b_polygon == toPolygon(b.prism.triangle)
                  b_area == PolygonArea2(b_polygon)
                  intersection_area == IntersectionArea2(a_polygon, b_polygon)
              IN Abs(intersection_area - Min(a_area, b_area)) < 2 * AreaTolerance
    ELSE LET a_edge == IF side = LEFT THEN getFromEdge(a.prism.triangle)
                       ELSE getToEdge(a.prism.triangle)
             b_edge == IF side = LEFT THEN getToEdge(b.prism.triangle)
                       ELSE getFromEdge(b.prism.triangle)
             a_vec == SegVector(a_edge)
             a_size == vSize(a_vec)
             p_from == CDiv(dot(PointSub(b_edge.from, a_edge.from), a_vec), a_size)
             p_to == CDiv(dot(PointSub(b_edge.to, a_edge.from), a_vec), a_size)
             a_edge_projected == Range(0, a_size)
             b_edge_projected == Range(Min(p_from, p_to), Max(p_from, p_to))
         IN IF ~areCollinear(a_edge, b_edge)
            THEN FALSE
            ELSE RangeSize(RangeIntersection(a_edge_projected, b_edge_projected))
                     > CoordTolerance

\* the assertions that fail in a call of isNextTo: ret.area() > 0 in toPolygon,
\* for either cell (a_size > 0 holds whenever the edges are collinear)
isNextToAsserts(a, b, side) ==
    IF side = UP \/ side = DOWN
    THEN IF ~RangeOverlap(a.prism.z_range, RangeExpanded(b.prism.z_range, CoordTolerance))
         THEN {}
         ELSE {"toPolygon" : k \in {t \in {a, b} :
                                   PolygonArea2(toPolygon(t.prism.triangle)) <= 0}}
    ELSE {}

(***************************************************************************)
(* std::list                                                               *)
(***************************************************************************)
\* the position of the node an iterator designates, 0 when it is not a node
\* of this list
PosOf(list, id) ==
    IF \E k \in 1..Len(list) : list[k].id = id
    THEN CHOOSE k \in 1..Len(list) : list[k].id = id
    ELSE 0

InsertBefore(list, k, e) == SubSeq(list, 1, k - 1) \o <<e>> \o SubSeq(list, k, Len(list))
EraseAt(list, k) == SubSeq(list, 1, k - 1) \o SubSeq(list, k + 1, Len(list))
EmplaceFront(list, e) == <<e>> \o list

(***************************************************************************)
(* The adjacency manager works on a heap h: the arena cell_data, the       *)
(* identity of the next list node, the assertions that failed and whether  *)
(* an iterator was used on a list it does not belong to.                   *)
(***************************************************************************)
Heap(cells, next, failed, undefined) ==
    [cell_data |-> cells, next_link_id |-> next, failed |-> failed,
     undefined |-> undefined]

\* a variant that forgets to set the reverse of the first link
initialConnectionOneWay(h, before, after, dir) ==
    LET before_to_after == h.next_link_id
        after_to_before == h.next_link_id + 1
    IN [h EXCEPT
          !.cell_data =
              [@ EXCEPT
                 ![before + 1].adjacent_cells[dir + 1] =
                     EmplaceFront(@, Link(before_to_after,
                                          CellAt(h.cell_data, after).index,
                                          before_to_after)),
                 ![after + 1].adjacent_cells[opposite(dir) + 1] =
                     EmplaceFront(@, Link(after_to_before,
                                          CellAt(h.cell_data, before).index,
                                          before_to_after))],
          !.next_link_id = @ + 2]

initialConnection(h, before, after, dir) ==
    LET before_to_after == h.next_link_id
        after_to_before == h.next_link_id + 1
    IN [h EXCEPT
          !.cell_data =
              [@ EXCEPT
                 ![before + 1].adjacent_cells[dir + 1] =
                     EmplaceFront(@, Link(before_to_after,
                                          CellAt(h.cell_data, after).index,
                                          after_to_before)),
                 ![after + 1].adjacent_cells[opposite(dir) + 1] =
                     EmplaceFront(@, Link(after_to_before,
                                          CellAt(h.cell_data, before).index,
                                          before_to_after))],
          !.next_link_id = @ + 2]

\* the initialConnection calls of subdivide, in order: <<before, after, dir>>
SiblingConnections(cell) ==
    <<  <<cell.children[1], cell.children[2], RIGHT>> >>
    \o IF getChildCount(cell) = 4
       THEN << <<cell.children[3], cell.children[4], RIGHT>>,
               <<cell.children[1], cell.children[3], UP>>,
               <<cell.children[2], cell.children[4], UP>> >>
       ELSE <<>>

\* the body of the loop over the children (lines 521 to 542) for one child
linkChild(h, side, neighbor, child_idx) ==
    LET child == CellAt(h.cell_data, child_idx)
        neighbor_cell == CellAt(h.cell_data, neighbor.to_index)
        failed == h.failed \cup isNextToAsserts(child, neighbor_cell, side)
        neighboring_edge_links == neighbor_cell.adjacent_cells[opposite(side) + 1]
        pos == PosOf(neighboring_edge_links, neighbor.reverse)
        outlink == h.next_link_id
        inlink == h.next_link_id + 1
    IN IF ~isNextTo(child, neighbor_cell, side)
       THEN [h EXCEPT !.failed = failed]
       ELSE IF pos = 0
       THEN [h EXCEPT !.failed = failed, !.undefined = TRUE]
       ELSE [h EXCEPT
               !.failed = failed,
               !.next_link_id = @ + 2,
               !.cell_data =
                   [@ EXCEPT
                      ![child_idx + 1].adjacent_cells[side + 1] =
                          EmplaceFront(@, Link(outlink, neighbor.to_index, inlink)),
                      ![neighbor.to_index + 1].adjacent_cells[opposite(side) + 1] =
                          InsertBefore(@, pos, Link(inlink, child_idx, outlink))]]

RECURSIVE linkChildren(_, _, _, _, _)
\* the loop over cell.children, from child slot k on
linkChildren(h, cell_idx, side, neighbor, k) ==
    IF k > 4 \/ CellAt(h.cell_data, cell_idx).children[k] < 0
    THEN h
    ELSE Strict(LAMBDA linked : linkChildren(linked, cell_idx, side, neighbor, k + 1),
                linkChild(h, side, neighbor,
                          CellAt(h.cell_data, cell_idx).children[k]))

\* a variant that leaves the neighbour's link to the parent in its list
eraseBackLinkSkipped(h, side, neighbor) == h

\* neighboring_edge_links.erase(*neighbor.reverse)
eraseBackLink(h, side, neighbor) ==
    LET pos == PosOf(CellAt(h.cell_data, neighbor.to_index)
                         .adjacent_cells[opposite(side) + 1],
                     neighbor.reverse)
    IN IF pos = 0
       THEN [h EXCEPT !.undefined = TRUE]
       ELSE [h EXCEPT !.cell_data[neighbor.to_index + 1]
                          .adjacent_cells[opposite(side) + 1] = EraseAt(@, pos)]

RECURSIVE rewireNeighbors(_, _, _, _)
\* the loop over cell.adjacent_cells[side], from the n-th link on
rewireNeighbors(h, cell_idx, side, n) ==
    LET links == CellAt(h.cell_data, cell_idx).adjacent_cells[side + 1]
    IN IF n > Len(links)
       THEN h
       ELSE Strict(LAMBDA done : rewireNeighbors(done, cell_idx, side, n + 1),
                   Strict(LAMBDA linked : eraseBackLink(linked, side, links[n]),
                          linkChildren(h, cell_idx, side, links[n], 1)))

RECURSIVE rewireSides(_, _, _)
\* the loop over the sides, from side on; each side ends with clear()
rewireSides(h, cell_idx, side) ==
    IF side >= NumberOfSides
    THEN h
    ELSE Strict(LAMBDA done :
                    rewireSides([done EXCEPT !.cell_data[cell_idx + 1]
                                                 .adjacent_cells[side + 1] = <<>>],
                                cell_idx, side + 1),
                rewireNeighbors(h, cell_idx, side, 1))

\* subdivide after its initialConnection calls: lines 488 to 553
rewire(h, cell_idx) ==
    [rewireSides(h, cell_idx, 0) EXCEPT !.cell_data[cell_idx + 1].is_subdivided = TRUE]

RECURSIVE connectSiblings(_, _, _)
connectSiblings(h, conns, k) ==
    IF k > Len(conns) THEN h
    ELSE connectSiblings(initialConnection(h, conns[k][1], conns[k][2], conns[k][3]),
                         conns, k + 1)

\* subdivide(cell) as a whole
subdivide(h, cell_idx) ==
    rewire(connectSiblings(h, SiblingConnections(CellAt(h.cell_data, cell_idx)), 1),
           cell_idx)

(***************************************************************************)
(* The program state                                                       *)
(***************************************************************************)
VARIABLES
    aabb,                  \* the bounding box given to the constructor
    max_depth,             \* the depth cap given to the constructor
    line_width,            \* the extrusion width given to the constructor
    density_provider,      \* the density field given to the constructor
    cell_data,             \* the arena of cells
    next_link_id,          \* the identity the next list node gets
    failed_asserts,        \* the assertions of the source that evaluated to false
    undefined_behaviour,   \* an iterator was used where the standard forbids it
    pc,                    \* the position of the caller in the program
    all_to_be_subdivided,  \* the work queue of createMinimalDensityPattern
    to_be_subdivided_idx,  \* the cell subdivide is working on
    connection_step,       \* the initialConnection calls subdivide has made
    subdivided_order,      \* history: the cells subdivide was called on, in order
    escalations,           \* history: the constrained heads of the queue
    walker,                \* the SliceWalker: its layer_sequence
    walker_z,              \* the z of the last advanceSequence call
    last_call              \* history: what the last walker call did

vars == <<aabb, max_depth, line_width, density_provider, cell_data, next_link_id,
          failed_asserts, undefined_behaviour, pc, all_to_be_subdivided,
          to_be_subdivided_idx, connection_step, subdivided_order, escalations,
          walker, walker_z, last_call>>

inputs == <<aabb, max_depth, line_width, density_provider>>
arena == <<cell_data, next_link_id, failed_asserts, undefined_behaviour>>
slicing == <<walker, walker_z, last_call>>

Boxes ==
    {[min |-> Point3(0, 0, 0), max |-> Point3(size, size, height)] :
        size \in AabbSizes, height \in AabbHeights}

\* density fields with two hot points, fully dense there and empty elsewhere
HotPairs ==
    {{Point3(1250, 6250, 1250), Point3(1250, 6250, 8750)},
     {Point3(1250, 3750, 1250), Point3(1250, 6250, 1250)},
     {Point3(1250, 1250, 1250), Point3(1250, 3750, 8750)}}

Providers ==
    {[hot_points |-> {Point3(x, y, z)}, hot |-> d[1], cold |-> d[2]] :
        x \in HotGrid, y \in HotGrid, z \in HotGridZ, d \in PointDensities}
    \cup {[hot_points |-> pair, hot |-> DensityDen, cold |-> 0] : pair \in HotPairs}
    \cup {[hot_points |-> {}, hot |-> d, cold |-> d] : d \in UniformDensities}

NoCall == [op |-> "none"]

\* the state after the constructor: the arena is empty
Init ==
    /\ aabb \in Boxes
    /\ max_depth \in 1..MaxDepth
    /\ line_width \in LineWidths
    /\ density_provider \in Providers
    /\ cell_data = <<>>
    /\ next_link_id = 1
    /\ failed_asserts = {}
    /\ undefined_behaviour = FALSE
    /\ pc = "constructed"
    /\ all_to_be_subdivided = <<>>
    /\ to_be_subdivided_idx = -1
    /\ connection_step = 0
    /\ subdivided_order = <<>>
    /\ escalations = <<>>
    /\ walker = [layer_sequence |-> <<>>]
    /\ walker_z = 0
    /\ last_call = NoCall

\* initialize(): createTree
Initialize ==
    /\ pc = "constructed"
    /\ cell_data' = createTree(aabb, max_depth, density_provider)
    /\ pc' = "initialized"
    /\ UNCHANGED <<inputs, next_link_id, failed_asserts, undefined_behaviour,
                   all_to_be_subdivided, to_be_subdivided_idx, connection_step,
                   subdivided_order, escalations, slicing>>

(***************************************************************************)
(* createMinimalDensityPattern, one step per iteration of its loop         *)
(***************************************************************************)
\* lines 353 to 362: the queue is seeded with the root
BeginDensityPattern ==
    /\ pc = "initialized"
    /\ Len(cell_data) > 0
    /\ all_to_be_subdivided' = <<0>>
    /\ pc' = "loop"
    /\ UNCHANGED <<inputs, arena, to_be_subdivided_idx, connection_step,
                   subdivided_order, escalations, slicing>>

Front == CellAt(cell_data, Head(all_to_be_subdivided))

IsLeafCell(cell) == cell.children[1] < 0 \/ cell.depth >= max_depth

\* lines 369 to 373: a leaf cell is dropped
PopLeaf ==
    /\ pc = "loop"
    /\ all_to_be_subdivided # <<>>
    /\ IsLeafCell(Front)
    /\ all_to_be_subdivided' = Tail(all_to_be_subdivided)
    /\ UNCHANGED <<inputs, arena, pc, to_be_subdivided_idx, connection_step,
                   subdivided_order, escalations, slicing>>

\* lines 375 to 378: the head is popped and subdivide is entered
BeginSubdivide ==
    /\ pc = "loop"
    /\ all_to_be_subdivided # <<>>
    /\ ~IsLeafCell(Front)
    /\ ~isConstrained(cell_data, Front)
    /\ Len(subdivided_order) < MaxSubdivisions
    /\ all_to_be_subdivided' = Tail(all_to_be_subdivided)
    /\ to_be_subdivided_idx' = Head(all_to_be_subdivided)
    /\ connection_step' = 0
    /\ subdivided_order' = Append(subdivided_order, Head(all_to_be_subdivided))
    /\ pc' = "subdivide"
    /\ UNCHANGED <<inputs, arena, escalations, slicing>>

\* lines 472 to 484: one initialConnection call of subdivide
ConnectSiblings ==
    /\ pc = "subdivide"
    /\ LET conns == SiblingConnections(CellAt(cell_data, to_be_subdivided_idx))
           c == conns[connection_step + 1]
           h == initialConnection(
                    Heap(cell_data, next_link_id, failed_asserts, undefined_behaviour),
                    c[1], c[2], c[3])
       IN /\ connection_step < Len(conns)
          /\ cell_data' = h.cell_data
          /\ next_link_id' = h.next_link_id
    /\ connection_step' = connection_step + 1
    /\ UNCHANGED <<inputs, failed_asserts, undefined_behaviour, pc,
                   all_to_be_subdivided, to_be_subdivided_idx, subdivided_order,
                   escalations, slicing>>

\* a variant that looks at the two lower children only
ChildrenToSubdivideLower(cells, cell, k) ==
    SelectSeq(<<cell.children[1], cell.children[2]>>,
              LAMBDA c : c >= 0 /\ shouldBeSubdivided(line_width, CellAt(cells, c)))

\* the children of cell that fail the density test, in slot order
RECURSIVE ChildrenToSubdivide(_, _, _)
ChildrenToSubdivide(cells, cell, k) ==
    IF k > 4 THEN <<>>
    ELSE (IF cell.children[k] >= 0
             /\ shouldBeSubdivided(line_width, CellAt(cells, cell.children[k]))
          THEN <<cell.children[k]>> ELSE <<>>)
         \o ChildrenToSubdivide(cells, cell, k + 1)

\* lines 488 to 553 and 379 to 385: the links of the parent are handed to
\* the children, and the children that are too sparse are queued at the back
RewireAndEnqueue ==
    /\ pc = "subdivide"
    /\ connection_step =
           Len(SiblingConnections(CellAt(cell_data, to_be_subdivided_idx)))
    /\ LET h == rewire(Heap(cell_data, next_link_id, failed_asserts,
                            undefined_behaviour),
                       to_be_subdivided_idx)
       IN /\ cell_data' = h.cell_data
          /\ next_link_id' = h.next_link_id
          /\ failed_asserts' = h.failed
          /\ undefined_behaviour' = h.undefined
          /\ all_to_be_subdivided' =
                 all_to_be_subdivided
                 \o ChildrenToSubdivide(h.cell_data,
                                        CellAt(h.cell_data, to_be_subdivided_idx), 1)
    /\ pc' = "loop"
    /\ UNCHANGED <<inputs, to_be_subdivided_idx, connection_step, subdivided_order,
                   escalations, slicing>>

\* the neighbours that constrain cell, in the order lines 390 to 399 meet them
RECURSIVE ConstrainersFrom(_, _, _, _)
ConstrainersFrom(cells, cell, side, k) ==
    IF side > NumberOfSides THEN <<>>
    ELSE IF k > Len(cell.adjacent_cells[side])
    THEN ConstrainersFrom(cells, cell, side + 1, 1)
    ELSE (IF isConstrainedBy(cell, CellAt(cells, cell.adjacent_cells[side][k].to_index))
          THEN <<cell.adjacent_cells[side][k].to_index>> ELSE <<>>)
         \o ConstrainersFrom(cells, cell, side, k + 1)

Constrainers(cells, cell) == ConstrainersFrom(cells, cell, 1, 1)

Reversed(seq) == [k \in 1..Len(seq) |-> seq[Len(seq) + 1 - k]]

\* a variant that queues the constrainers at the back
PushBackAll(queue, found) == queue \o found

\* a variant that pushes every constrainer to the front twice
PushFrontTwice(queue, found) == Reversed(found) \o Reversed(found) \o queue

\* push_front of each of found, in order: the last one found ends up first
PushFrontAll(queue, found) == Reversed(found) \o queue

\* lines 387 to 400: the head is constrained and stays; its constrainers are
\* pushed in front of it
PushConstrainers ==
    /\ pc = "loop"
    /\ all_to_be_subdivided # <<>>
    /\ ~IsLeafCell(Front)
    /\ isConstrained(cell_data, Front)
    /\ Len(all_to_be_subdivided) < MaxQueue
    /\ all_to_be_subdivided' =
           PushFrontAll(all_to_be_subdivided, Constrainers(cell_data, Front))
    /\ escalations' = Append(escalations,
           [cell |-> Head(all_to_be_subdivided),
            constrainers |-> Constrainers(cell_data, Front),
            behind |-> Tail(all_to_be_subdivided),
            at |-> Len(subdivided_order)])
    /\ UNCHANGED <<inputs, arena, pc, to_be_subdivided_idx, connection_step,
                   subdivided_order, slicing>>

\* line 364: the queue is empty and createMinimalDensityPattern returns
FinishDensityPattern ==
    /\ pc = "loop"
    /\ all_to_be_subdivided = <<>>
    /\ pc' = "pattern_done"
    /\ UNCHANGED <<inputs, arena, all_to_be_subdivided, to_be_subdivided_idx,
                   connection_step, subdivided_order, escalations, slicing>>

(***************************************************************************)
(* The slice walker                                                        *)
(***************************************************************************)
RECURSIVE descendFirstChild(_, _)
\* lines 628 to 632: the first cell that is not subdivided, down children[0]
descendFirstChild(cells, idx) ==
    IF CellAt(cells, idx).is_subdivided
    THEN descendFirstChild(cells, CellAt(cells, idx).children[1])
    ELSE idx

RECURSIVE walkRight(_, _)
\* lines 635 to 639; a walk longer than the arena has entered a cycle of
\* RIGHT links and never ends
walkRight(cells, sequence) ==
    LET last_cell == CellAt(cells, sequence[Len(sequence)])
        right == last_cell.adjacent_cells[RIGHT + 1]
    IN IF right = <<>>
       THEN [layer_sequence |-> sequence, returns |-> TRUE]
       ELSE IF Len(sequence) > Len(cells)
       THEN [layer_sequence |-> sequence, returns |-> FALSE]
       ELSE walkRight(cells, Append(sequence, right[1].to_index))

getBottomSequence(cells) == walkRight(cells, <<descendFirstChild(cells, 0)>>)

\* a variant that goes through the list from its back to its front
ToIndicesBackwards(links) ==
    [k \in 1..Len(links) |-> links[Len(links) + 1 - k].to_index]

\* the links of a list as the sequence of their to_index
ToIndices(links) == [k \in 1..Len(links) |-> links[k].to_index]

\* a variant without the test of line 685: every upstairs neighbour is
\* inserted
replaceCellUnfiltered(cells, r, i) ==
    LET inserted == ToIndices(CellAt(cells, r.sequence[i]).adjacent_cells[UP + 1])
    IN [r EXCEPT
          !.sequence = SubSeq(r.sequence, 1, i - 1) \o inserted
                       \o SubSeq(r.sequence, i + 1, Len(r.sequence)),
          !.failed = @ \cup (IF inserted = <<>>
                             THEN {"neighbors_above", "inserted_something"} ELSE {}),
          !.undefined = @ \/ (i = 1 /\ inserted = <<>>),
          !.replaced = @ + 1,
          !.position = i + Len(inserted)]

\* lines 663 to 698 for the cell at position i of r.sequence, when it is too
\* low: it is replaced by its upstairs neighbours
replaceCell(cells, r, i) ==
    LET sequence == r.sequence
        cell == CellAt(cells, sequence[i])
        cell_before_idx == IF i # 1 THEN CellAt(cells, sequence[i - 1]).index ELSE -1
        cell_after_idx == IF i # Len(sequence)
                          THEN CellAt(cells, sequence[i + 1]).index ELSE -1
        neighbors_above == ToIndices(cell.adjacent_cells[UP + 1])
        Fresh(to_index) == to_index # cell_before_idx /\ to_index # cell_after_idx
        inserted == SelectSeq(neighbors_above, Fresh)
    IN [r EXCEPT
          !.sequence = SubSeq(sequence, 1, i - 1) \o inserted
                       \o SubSeq(sequence, i + 1, Len(sequence)),
          !.failed = @ \cup (IF neighbors_above = <<>> THEN {"neighbors_above"} ELSE {})
                       \cup (IF inserted = <<>> THEN {"inserted_something"} ELSE {}),
          \* std::prev of begin(): nothing was inserted before the first cell
          !.undefined = @ \/ (i = 1 /\ inserted = <<>>),
          !.replaced = @ + 1,
          !.position = i + Len(inserted)]

RECURSIVE advancePass(_, _, _)
\* the for loop of lines 661 to 699, from r.position on
advancePass(cells, r, new_z) ==
    IF r.position > Len(r.sequence)
    THEN r
    ELSE IF CellAt(cells, r.sequence[r.position]).prism.z_range.max < new_z
    THEN Strict(LAMBDA next : advancePass(cells, next, new_z),
                replaceCell(cells, r, r.position))
    ELSE Strict(LAMBDA next : advancePass(cells, next, new_z),
                [r EXCEPT !.position = @ + 1])

\* lines 701 to 711: some cell is still too low
StillBelow(cells, sequence, new_z) ==
    \E k \in 1..Len(sequence) : CellAt(cells, sequence[k]).prism.z_range.max < new_z

\* a variant with an if in place of the while: one pass and no more
advanceLoopSinglePass(cells, r, new_z, fuel) ==
    advancePass(cells, [r EXCEPT !.position = 1], new_z)

RECURSIVE advanceLoop(_, _, _, _)
\* the while loop of advanceSequence; it runs a pass, warns when a cell is
\* still too low and goes round again.  A loop that outlasts fuel passes
\* never ends.
advanceLoop(cells, r, new_z, fuel) ==
    LET passed == advancePass(cells, [r EXCEPT !.position = 1], new_z)
    IN IF ~StillBelow(cells, passed.sequence, new_z)
       THEN passed
       ELSE IF fuel = 0
       THEN [passed EXCEPT !.returns = FALSE]
       ELSE Strict(LAMBDA again : advanceLoop(cells, again, new_z, fuel - 1),
                   [passed EXCEPT !.warnings = @ + 1])

advanceSequence(cells, sequence, new_z) ==
    advanceLoop(cells,
                [sequence |-> sequence, position |-> 1, failed |-> {},
                 undefined |-> FALSE, replaced |-> 0, warnings |-> 0,
                 returns |-> TRUE],
                new_z, Len(cells))

\* the z values advanceSequence is called with: layers from the bottom of
\* the box to MaxOvershoot layers above its top
ZTargets(h) ==
    {aabb.min.z + k * h : k \in 0..((aabb.max.z - aabb.min.z) \div h + MaxOvershoot)}

GetBottomSequence ==
    /\ pc = "pattern_done"
    /\ LET bottom == getBottomSequence(cell_data)
       IN /\ walker' = [layer_sequence |-> bottom.layer_sequence]
          /\ pc' = IF bottom.returns THEN "slicing" ELSE "diverged"
          /\ last_call' = [op |-> "getBottomSequence"]
    /\ walker_z' = aabb.min.z
    /\ UNCHANGED <<inputs, arena, all_to_be_subdivided, to_be_subdivided_idx,
                   connection_step, subdivided_order, escalations>>

AdvanceSequence ==
    /\ pc = "slicing"
    /\ \E h \in LayerHeights : \E new_z \in ZTargets(h) :
          /\ new_z >= walker_z
          /\ new_z <= walker_z + MaxJump * h
          /\ LET r == advanceSequence(cell_data, walker.layer_sequence, new_z)
             IN /\ walker' = [layer_sequence |-> r.sequence]
                /\ walker_z' = new_z
                /\ failed_asserts' = failed_asserts \cup r.failed
                /\ undefined_behaviour' = (undefined_behaviour \/ r.undefined)
                /\ pc' = IF r.returns THEN "slicing" ELSE "diverged"
                /\ last_call' = [op |-> "advanceSequence",
                                 new_z |-> new_z,
                                 before |-> walker.layer_sequence,
                                 failed |-> r.failed,
                                 replaced |-> r.replaced,
                                 warnings |-> r.warnings,
                                 \* the call repeats the target of the call before
                                 repeat |-> (last_call.op = "advanceSequence"
                                             /\ new_z = walker_z),
                                 previous |-> IF last_call.op = "advanceSequence"
                                              THEN last_call.replaced ELSE 0]
    /\ UNCHANGED <<inputs, cell_data, next_link_id, all_to_be_subdivided,
                   to_be_subdivided_idx, connection_step, subdivided_order,
                   escalations>>

Next ==
    \/ Initialize
    \/ BeginDensityPattern
    \/ PopLeaf
    \/ BeginSubdivide
    \/ ConnectSiblings
    \/ RewireAndEnqueue
    \/ PushConstrainers
    \/ FinishDensityPattern
    \/ GetBottomSequence
    \/ AdvanceSequence

Spec == Init /\ [][Next]_vars

\* what createMinimalDensityPattern does once it has been entered
PatternStep ==
    \/ PopLeaf
    \/ BeginSubdivide
    \/ ConnectSiblings
    \/ RewireAndEnqueue
    \/ PushConstrainers
    \/ FinishDensityPattern

\* the states in which <<PatternStep>>_vars can be taken, read off the guards
PatternStepEnabled ==
    \/ pc = "subdivide"
    \/ /\ pc = "loop"
       /\ \/ all_to_be_subdivided = <<>>
          \/ IsLeafCell(Front)
          \/ IF isConstrained(cell_data, Front)
             THEN Len(all_to_be_subdivided) < MaxQueue
             ELSE Len(subdivided_order) < MaxSubdivisions

\* createMinimalDensityPattern is one thread that runs until it returns: a
\* step of its loop that can be taken is taken.  This is WF_vars(PatternStep)
\* with ENABLED <<PatternStep>>_vars written out as PatternStepEnabled.  The
\* calls made by the client (initialize, the slicing calls) are not forced.
LiveSpec ==
    Spec /\ ([]<>(~PatternStepEnabled) \/ []<><<PatternStep>>_vars)

(***************************************************************************)
(* Properties                                                              *)
(***************************************************************************)
CellIndices == 0..(Len(cell_data) - 1)
Sides == {LEFT, RIGHT, UP, DOWN}
LinksOf(idx, side) == CellAt(cell_data, idx).adjacent_cells[side + 1]
DepthOf(idx) == CellAt(cell_data, idx).depth

\* createMinimalDensityPattern has returned
PatternDone == pc \in {"pattern_done", "slicing", "diverged"}

\* some link joins cells whose depths differ by exactly n
SomeLinkSpans(n) ==
    \E idx \in CellIndices : \E side \in Sides :
        \E k \in 1..Len(LinksOf(idx, side)) :
            Abs(DepthOf(idx) - DepthOf(LinksOf(idx, side)[k].to_index)) = n

\* C1: one-level balance.  Whenever no subdivide call is under way (after
\* each completed subdivide of createMinimalDensityPattern and after it has
\* finished), the two cells of every link differ in depth by at most one.
OneLevelBalance ==
    pc # "subdivide" =>
        \A idx \in CellIndices : \A side \in Sides :
            \A k \in 1..Len(LinksOf(idx, side)) :
                Abs(DepthOf(idx) - DepthOf(LinksOf(idx, side)[k].to_index)) <= 1

\* a constrained head made the queue escalate, and the finished pattern
\* still has neighbours one level apart
OneLevelBalanceWitness ==
    /\ pc = "pattern_done"
    /\ escalations # <<>>
    /\ SomeLinkSpans(1)

\* C2: link pairing.  In every state (after each initialConnection and each
\* completed subdivide), the reverse of a link L on side S of cell C is a
\* node of the opposite side's list of cell L.to_index, it leads back to C
\* and its own reverse is L.
LinkPairing ==
    /\ ~undefined_behaviour \/ PatternDone
    /\ \A idx \in CellIndices : \A side \in Sides :
          \A k \in 1..Len(LinksOf(idx, side)) :
              LET L == LinksOf(idx, side)[k]
                  back == LinksOf(L.to_index, opposite(side))
              IN \E n \in 1..Len(back) :
                    /\ back[n].id = L.reverse
                    /\ back[n].to_index = CellAt(cell_data, idx).index
                    /\ back[n].reverse = L.id

\* a subdivide has handed a neighbour to two children, and links exist
\* sideways and upwards
LinkPairingWitness ==
    /\ pc = "loop"
    /\ \E idx \in CellIndices : Len(LinksOf(idx, LEFT)) >= 2
    /\ \E idx \in CellIndices : Len(LinksOf(idx, UP)) >= 2
    /\ SomeLinkSpans(1)

\* C3: termination.  Once createMinimalDensityPattern has entered its loop
\* the queue eventually runs empty and the function returns.
PatternTerminates == (pc = "loop") ~> PatternDone

\* the function has returned after a run with several escalations
PatternTerminatesWitness ==
    /\ pc = "pattern_done"
    /\ all_to_be_subdivided = <<>>
    /\ Len(escalations) >= 2
    /\ Len(subdivided_order) >= 8

\* the parent of cell idx has been subdivided
ParentSubdivided(idx) ==
    \E p \in CellIndices :
        /\ CellAt(cell_data, p).is_subdivided
        /\ \E k \in 1..4 : CellAt(cell_data, p).children[k] = idx

\* the leaves of the subdivided tree
IsPatternLeaf(idx) ==
    ~CellAt(cell_data, idx).is_subdivided /\ ParentSubdivided(idx)

\* getActualizedVolume(cell) / cell.volume >= cell.minimally_required_density
DenseEnough(idx) ==
    LET cell == CellAt(cell_data, idx)
    IN 2 * line_width * ActualizedLength(cell) * DensityDen
           >= cell.minimally_required_density * VolumeArea2(cell)

\* C4: when createMinimalDensityPattern has finished, every cell that is not
\* subdivided and whose parent is subdivided is dense enough
\* (actualized volume / volume >= minimally_required_density) or sits at
\* max_depth.
LeavesDenseOrDeepest ==
    PatternDone =>
        \A idx \in CellIndices :
            IsPatternLeaf(idx) => DenseEnough(idx) \/ DepthOf(idx) >= max_depth

\* the finished pattern has a leaf above max_depth that is dense enough and
\* a leaf at max_depth that is still too sparse
LeavesDenseOrDeepestWitness ==
    /\ pc = "pattern_done"
    /\ \E idx \in CellIndices :
          IsPatternLeaf(idx) /\ DenseEnough(idx) /\ DepthOf(idx) < max_depth
    /\ \E idx \in CellIndices :
          IsPatternLeaf(idx) /\ ~DenseEnough(idx) /\ DepthOf(idx) = max_depth

\* subdivide has just been entered for cell to_be_subdivided_idx
SubdivideInvoked == pc = "subdivide" /\ connection_step = 0

\* C5: at every invocation of subdivide(cell) by createMinimalDensityPattern
\* cell.depth < max_depth and no cell linked from any of the four adjacency
\* lists of cell has a depth strictly smaller than cell.depth.
SubdivideOnlyWhenAllowed ==
    SubdivideInvoked =>
        /\ DepthOf(to_be_subdivided_idx) < max_depth
        /\ \A side \in Sides :
              \A k \in 1..Len(LinksOf(to_be_subdivided_idx, side)) :
                  DepthOf(LinksOf(to_be_subdivided_idx, side)[k].to_index)
                      >= DepthOf(to_be_subdivided_idx)

\* subdivide is entered for a cell that had been held back by a constraint
\* and that now has a deeper neighbour
SubdivideOnlyWhenAllowedWitness ==
    /\ SubdivideInvoked
    /\ \E n \in 1..Len(escalations) : escalations[n].cell = to_be_subdivided_idx
    /\ \E side \in Sides :
          \E k \in 1..Len(LinksOf(to_be_subdivided_idx, side)) :
              DepthOf(LinksOf(to_be_subdivided_idx, side)[k].to_index)
                  > DepthOf(to_be_subdivided_idx)

\* the cells linked from cell idx that have a strictly smaller depth
ShallowerNeighbours(idx) ==
    UNION {{LinksOf(idx, side)[k].to_index : k \in 1..Len(LinksOf(idx, side))} :
              side \in Sides}
    \cap {n \in CellIndices : DepthOf(n) < DepthOf(idx)}

\* the positions of subdivided_order, after the escalation e, at which the
\* escalated cell is subdivided
SubdividedAfter(e) ==
    {q \in (e.at + 1)..Len(subdivided_order) : subdivided_order[q] = e.cell}

\* for every escalation recorded so far: nothing that stood behind the
\* constrained cell is subdivided before it, its constrainers are subdivided
\* before it, and it is subdivided by the time the function returns
EscalationsHonoured ==
    \A n \in 1..Len(escalations) :
        LET e == escalations[n]
            behind == {e.behind[k] : k \in 1..Len(e.behind)} \ {e.cell}
            constrainers == {e.constrainers[k] : k \in 1..Len(e.constrainers)}
        IN /\ \A q \in (e.at + 1)..Len(subdivided_order) :
                 (\A r \in SubdividedAfter(e) : q < r)
                     => subdivided_order[q] \notin behind
           /\ \A r \in SubdividedAfter(e) :
                 \A c \in constrainers :
                     \E q \in (e.at + 1)..(r - 1) : subdivided_order[q] = c
           /\ PatternDone => SubdividedAfter(e) # {}

\* a step that lengthens the queue inside the loop puts exactly the
\* shallower neighbours of the head in front of the old queue
ConstrainersGoToFront ==
    (pc = "loop" /\ pc' = "loop"
     /\ Len(all_to_be_subdivided') > Len(all_to_be_subdivided))
        => LET n == Len(all_to_be_subdivided') - Len(all_to_be_subdivided)
           IN /\ SubSeq(all_to_be_subdivided', n + 1, Len(all_to_be_subdivided'))
                     = all_to_be_subdivided
              /\ {all_to_be_subdivided'[k] : k \in 1..n}
                     = ShallowerNeighbours(Head(all_to_be_subdivided))
              /\ n > 0

\* the step that completes a subdivide leaves the old queue in place and
\* puts the children that are too sparse behind it
ChildrenGoToBack ==
    (pc = "subdivide" /\ pc' = "loop")
        => LET n == Len(all_to_be_subdivided)
               added == SubSeq(all_to_be_subdivided', n + 1,
                               Len(all_to_be_subdivided'))
           IN /\ SubSeq(all_to_be_subdivided', 1, n) = all_to_be_subdivided
              /\ {added[k] : k \in 1..Len(added)}
                     = {c \in CellIndices :
                           /\ \E k \in 1..4 :
                                 CellAt(cell_data, to_be_subdivided_idx).children[k] = c
                           /\ ~DenseEnough(c)}

\* C6: queue ordering in createMinimalDensityPattern.  When the head of the
\* queue is constrained, every neighbour of strictly smaller depth is put at
\* the front of the queue and is subdivided before the constrained cell; the
\* constrained cell is subdivided before any cell that stood behind it; the
\* children failing the density test are appended at the back.
QueueOrdering ==
    /\ []EscalationsHonoured
    /\ [][ConstrainersGoToFront /\ ChildrenGoToBack]_vars

\* the pattern has finished after a constrained cell with three cells queued
\* behind it had its constrainer put in front and was subdivided afterwards
QueueOrderingWitness ==
    /\ pc = "pattern_done"
    /\ \E n \in 1..Len(escalations) :
          /\ Len(escalations[n].constrainers) >= 1
          /\ Len(escalations[n].behind) >= 3
          /\ SubdividedAfter(escalations[n]) # {}

\* the cells of the walker's sequence, in order
SequenceCells ==
    [k \in 1..Len(walker.layer_sequence) |->
        CellAt(cell_data, walker.layer_sequence[k])]

\* the last slicing call was advanceSequence with a target no higher than
\* one layer below the top of the box
AdvancedWithinBox ==
    /\ pc \in {"slicing", "diverged"}
    /\ last_call.op = "advanceSequence"
    /\ \A h \in LayerHeights : walker_z <= aabb.max.z - h

\* C7: walker advancement.  Starting from getBottomSequence and calling
\* advanceSequence with increasing targets z in [aabb.min.z, aabb.max.z - h],
\* after each call returns every cell of walker.layer_sequence has
\* z_range.min <= z <= z_range.max.
WalkerCoversTarget ==
    AdvancedWithinBox =>
        /\ pc = "slicing"
        /\ \A k \in 1..Len(SequenceCells) :
              /\ SequenceCells[k].prism.z_range.min <= walker_z
              /\ walker_z <= SequenceCells[k].prism.z_range.max

\* C8: after createMinimalDensityPattern, getBottomSequence terminates and
\* every cell of the returned sequence is a leaf of the subdivided tree
\* (not subdivided, parent subdivided) whose z_range.min equals aabb.min.z.
BottomSequenceAtBottom ==
    last_call.op = "getBottomSequence" =>
        /\ pc = "slicing"
        /\ \A k \in 1..Len(SequenceCells) :
              /\ IsPatternLeaf(walker.layer_sequence[k])
              /\ SequenceCells[k].prism.z_range.min = aabb.min.z

\* the three edges of a triangle
TriangleEdges(t) ==
    {LineSegment(t.straight_corner, t.a),
     LineSegment(t.straight_corner, t.b),
     LineSegment(t.a, t.b)}

\* two segments lie on one line and overlap over more than the tolerance
EdgesCoincide(e, f) ==
    LET e_vec == SegVector(e)
        e_size == vSize(e_vec)
        off(p) == Abs(cross(e_vec, PointSub(p, e.from))) \div e_size
        at(p) == CDiv(dot(PointSub(p, e.from), e_vec), e_size)
    IN /\ e_size > 0
       /\ off(f.from) < CoordTolerance
       /\ off(f.to) < CoordTolerance
       /\ Min(e_size, Max(at(f.from), at(f.to))) - Max(0, Min(at(f.from), at(f.to)))
              > CoordTolerance

\* the triangles of two cells share an edge, or part of one
ShareTriangleEdge(a, b) ==
    \E e \in TriangleEdges(a.prism.triangle) :
        \E f \in TriangleEdges(b.prism.triangle) : EdgesCoincide(e, f)

\* C9: the slice walker's sequence is a closed ring.  After getBottomSequence
\* and after every advanceSequence call the first and the last cell of
\* walker.layer_sequence share a triangle edge.
SequenceIsClosedRing ==
    (pc = "slicing" /\ last_call.op \in {"getBottomSequence", "advanceSequence"})
        => /\ walker.layer_sequence # <<>>
           /\ ShareTriangleEdge(SequenceCells[1], SequenceCells[Len(SequenceCells)])

\* the last advanceSequence call met a cell it could not replace: the cell
\* had no UP neighbour, or every UP neighbour was the cell before or after
CouldNotAdvance ==
    last_call.op = "advanceSequence" /\ last_call.failed # {}

\* C10: when advanceSequence(walker, new_z) cannot advance, the call only
\* warns and returns with walker.layer_sequence equal to its value before
\* the call.
StuckWalkerUnchanged ==
    CouldNotAdvance =>
        /\ pc = "slicing"
        /\ walker.layer_sequence = last_call.before

\* C11: idempotent advance.  A call advanceSequence(w, z) made right after a
\* call with the same z has returned replaces no cell and leaves
\* walker.layer_sequence as it was.
AdvanceIsIdempotent ==
    (last_call.op = "advanceSequence" /\ last_call.repeat)
        => /\ last_call.replaced = 0
           /\ walker.layer_sequence = last_call.before

\* the target was repeated after a call that replaced more cells than the
\* sequence now holds, and the sequence is not empty
AdvanceIsIdempotentWitness ==
    /\ pc = "slicing"
    /\ last_call.op = "advanceSequence"
    /\ last_call.repeat
    /\ last_call.previous > Len(walker.layer_sequence)
    /\ walker.layer_sequence # <<>>
    /\ \A h \in LayerHeights : walker_z <= aabb.max.z - h

\* every cell the density test is applied to before max_depth fails it (the
\* root is a bogus node that is subdivided without being tested)
AllTooSparse ==
    \A idx \in CellIndices :
        (1 <= DepthOf(idx) /\ DepthOf(idx) < max_depth) => ~DenseEnough(idx)

\* C12: max-depth cap.  When every cell of depth < max_depth fails the
\* density test, createMinimalDensityPattern ends with every leaf of the
\* subdivided tree at depth exactly max_depth and with no cell of depth
\* >= max_depth subdivided.
MaxDepthCap ==
    (PatternDone /\ AllTooSparse)
        => /\ \A idx \in CellIndices :
                 IsPatternLeaf(idx) => DepthOf(idx) = max_depth
           /\ \A idx \in CellIndices :
                 DepthOf(idx) >= max_depth => ~CellAt(cell_data, idx).is_subdivided

\* the pattern has finished for a fully dense field and a tree of depth 3 or
\* more whose deepest leaves are still too sparse
MaxDepthCapWitness ==
    /\ pc = "pattern_done"
    /\ AllTooSparse
    /\ max_depth >= 3
    /\ \E idx \in CellIndices :
          IsPatternLeaf(idx) /\ DepthOf(idx) = max_depth /\ ~DenseEnough(idx)

\* the two cells createTree() makes for the two halves of the aabb
LevelOneCells == {idx \in CellIndices : DepthOf(idx) = 1}

\* height of the prism of a cell
HeightOf(idx) ==
    CellAt(cell_data, idx).prism.z_range.max - CellAt(cell_data, idx).prism.z_range.min

\* the prism is as high as the hypotenuse a-b of its triangle is long
HeightIsHypotenuse(idx) ==
    HeightOf(idx) = vSize(PointSub(CellAt(cell_data, idx).prism.triangle.a,
                                   CellAt(cell_data, idx).prism.triangle.b))

\* the prism is as high as the leg straight_corner-b of its triangle is long
HeightIsLeg(idx) ==
    HeightOf(idx) = vSize(PointSub(CellAt(cell_data, idx).prism.triangle.straight_corner,
                                   CellAt(cell_data, idx).prism.triangle.b))

HasTwoChildren(idx) ==
    LET ch == CellAt(cell_data, idx).children
    IN  ch[1] >= 0 /\ ch[2] >= 0 /\ ch[3] < 0 /\ ch[4] < 0

HasFourChildren(idx) ==
    \A k \in 1..4 : CellAt(cell_data, idx).children[k] >= 0

\* C13 as stated: for an aabb whose z-height equals the hypotenuse of the
\* level-1 triangle (max_depth >= 2) both level-1 cells are half-cubes and
\* have exactly 2 children.
HalfCubeRootAsStated ==
    \A idx \in LevelOneCells :
        (max_depth >= 2 /\ HeightIsHypotenuse(idx))
            => isHalfCube(CellAt(cell_data, idx).prism) /\ HasTwoChildren(idx)

\* C13: half-cube root.  With max_depth >= 2, a level-1 cell whose prism is
\* as high as the leg of its triangle (a cubic aabb) is a half-cube and has
\* exactly 2 children; one whose prism is as high as the hypotenuse is a
\* quarter-cube, not a half-cube, and has 4 children.
HalfCubeRoot ==
    \A idx \in LevelOneCells :
        max_depth >= 2
            => /\ HeightIsLeg(idx)
                    => /\ isHalfCube(CellAt(cell_data, idx).prism)
                       /\ HasTwoChildren(idx)
               /\ HeightIsHypotenuse(idx)
                    => /\ ~isHalfCube(CellAt(cell_data, idx).prism)
                       /\ isQuarterCube(CellAt(cell_data, idx).prism)
                       /\ HasFourChildren(idx)

\* the tree has been built for a box as high as the diagonal of its base and
\* both level-1 cells have four children
HalfCubeRootWitness ==
    /\ pc # "constructed"
    /\ max_depth >= 2
    /\ Cardinality(LevelOneCells) = 2
    /\ \A idx \in LevelOneCells : HeightIsHypotenuse(idx) /\ HasFourChildren(idx)

\* createTree has just returned; no later step changes a prism
TreeBuilt == pc = "initialized"

\* the triangles of the cells of the tree (the root has none), each taken
\* with each of the three directions
TreeTriangles ==
    {[CellAt(cell_data, idx).prism.triangle EXCEPT !.dir = dir] :
        idx \in {i \in CellIndices : DepthOf(i) >= 1}, dir \in Directions}

\* C14 as stated: for every triangle and each of the three directions,
\* getFromEdge() of child 0 of Triangle::subdivide is collinear with
\* getToEdge() of child 1.
CurveConnectivityAsStated ==
    TreeBuilt => \A t \in TreeTriangles :
        areCollinear(getFromEdge(TriangleSubdivide(t)[1]),
                     getToEdge(TriangleSubdivide(t)[2]))

\* C14: curve connectivity.  For every triangle and each of the three
\* directions, getToEdge() of child 0 of Triangle::subdivide is collinear
\* with getFromEdge() of child 1: the curve leaves child 0 where it enters
\* child 1.
CurveConnectivity ==
    TreeBuilt => \A t \in TreeTriangles :
        areCollinear(getToEdge(TriangleSubdivide(t)[1]),
                     getFromEdge(TriangleSubdivide(t)[2]))

\* the tree holds a cell of depth 2 or more, with the straight corner on the
\* right, whose lower children carry the triangles subdivide() returns and
\* whose entry edge of child 0 is not collinear with the exit edge of child 1
CurveConnectivityWitness ==
    TreeBuilt /\ \E idx \in CellIndices :
        LET cell == CellAt(cell_data, idx)
            sub == TriangleSubdivide(cell.prism.triangle)
        IN  /\ cell.depth >= 2
            /\ ~cell.prism.triangle.straight_corner_is_left
            /\ cell.children[1] >= 0
            /\ CellAt(cell_data, cell.children[1]).prism.triangle = sub[1]
            /\ CellAt(cell_data, cell.children[2]).prism.triangle = sub[2]
            /\ areCollinear(getToEdge(sub[1]), getFromEdge(sub[2]))
            /\ ~areCollinear(getFromEdge(sub[1]), getToEdge(sub[2]))

\* which child is followed at each step of a chain of subdivide steps; a
\* pattern is repeated for as long as the chain is
ChainPatterns == {<<1>>, <<2>>, <<1, 2>>, <<2, 1>>}

\* the triangle n subdivide steps below t along a pattern
RECURSIVE Descendant(_, _, _)
Descendant(t, pat, n) ==
    IF n = 0 THEN t
    ELSE Strict(LAMBDA parent : TriangleSubdivide(parent)[pat[((n - 1) % Len(pat)) + 1]],
                Descendant(t, pat, n - 1))

LevelOneTriangles == {CellAt(cell_data, idx).prism.triangle : idx \in LevelOneCells}

PositivelyOriented(t) == PolygonArea2(toPolygon(t)) > 0

\* the hypotenuse a-b is at least CoordTolerance long
LongHypotenuse(t) == vSize2(PointSub(t.a, t.b)) >= CoordTolerance * CoordTolerance

BetweenSubdivisions == pc # "subdivide"

\* the cells some link of some list points to
LinkTargets ==
    UNION {{LinksOf(idx, side)[n].to_index : n \in 1..Len(LinksOf(idx, side))} :
              idx \in CellIndices, side \in Sides}

\* the children of a cell
ChildrenOf(idx) == {c \in {CellAt(cell_data, idx).children[k] : k \in 1..4} : c >= 0}

\* C16: after every completed subdivide(cell) the four adjacency lists of a
\* subdivided cell are empty and no adjacency list of any cell holds a link
\* whose to_index is a subdivided cell.
SubdividedCellsUnlinked ==
    BetweenSubdivisions
        => \A idx \in CellIndices :
             CellAt(cell_data, idx).is_subdivided
                 => /\ \A side \in Sides : LinksOf(idx, side) = <<>>
                    /\ idx \notin LinkTargets

\* a subdivide call has completed on a cell that had neighbours: one of its
\* children is linked to a cell that is not its sibling
SubdividedCellsUnlinkedWitness ==
    /\ pc = "loop"
    /\ Len(subdivided_order) >= 3
    /\ \E idx \in CellIndices :
          /\ CellAt(cell_data, idx).is_subdivided
          /\ DepthOf(idx) >= 2
          /\ \A side \in Sides : LinksOf(idx, side) = <<>>
          /\ \E c \in ChildrenOf(idx), side \in Sides :
                \E n \in 1..Len(LinksOf(c, side)) :
                    LinksOf(c, side)[n].to_index \notin ChildrenOf(idx)

\* subdivide is about to hand the links of the parent to its children
AboutToRewire ==
    /\ pc = "subdivide"
    /\ connection_step = Len(SiblingConnections(CellAt(cell_data, to_be_subdivided_idx)))

\* the children of parent that isNextTo finds next to neighbor on side
ChildrenNextTo(parent, neighbor, side) ==
    {c \in ChildrenOf(parent) :
        isNextTo(CellAt(cell_data, c), CellAt(cell_data, neighbor), side)}

\* C17: in subdivide, for every link of the parent to a neighbour, the
\* number of children for which isNextTo(child, neighbour, side) is true is 1
\* or 2, never 0 and never more than 2.
OneOrTwoChildrenPerLink ==
    AboutToRewire
        => \A side \in Sides :
             \A n \in 1..Len(LinksOf(to_be_subdivided_idx, side)) :
                 Cardinality(ChildrenNextTo(to_be_subdivided_idx,
                                            LinksOf(to_be_subdivided_idx, side)[n].to_index,
                                            side)) \in {1, 2}

\* a cell with four children is about to be rewired; one of its links has one
\* child next to the neighbour and another has two
OneOrTwoChildrenPerLinkWitness ==
    /\ AboutToRewire
    /\ getChildCount(CellAt(cell_data, to_be_subdivided_idx)) = 4
    /\ \A k \in {1, 2} :
          \E side \in Sides :
            \E n \in 1..Len(LinksOf(to_be_subdivided_idx, side)) :
                Cardinality(ChildrenNextTo(to_be_subdivided_idx,
                                           LinksOf(to_be_subdivided_idx, side)[n].to_index,
                                           side)) = k

\* the aabb is a cube
IsCubic ==
    /\ aabb.max.x - aabb.min.x = aabb.max.y - aabb.min.y
    /\ aabb.max.x - aabb.min.x = aabb.max.z - aabb.min.z

PrismOf(idx) == CellAt(cell_data, idx).prism

\* every child of a half-cube is a quarter-cube and not a half-cube, every
\* child of a quarter-cube is a half-cube and not a quarter-cube (the root
\* holds no prism)
KindsAlternate ==
    \A idx \in CellIndices : \A c \in ChildrenOf(idx) :
        DepthOf(idx) >= 1
            => /\ isHalfCube(PrismOf(idx))
                    => isQuarterCube(PrismOf(c)) /\ ~isHalfCube(PrismOf(c))
               /\ isQuarterCube(PrismOf(idx))
                    => isHalfCube(PrismOf(c)) /\ ~isQuarterCube(PrismOf(c))

\* a cell of depth < max_depth and a child of depth < max_depth have exactly 2
\* and exactly 4 children, one way or the other
CountsAlternate(idx) ==
    \A c \in ChildrenOf(idx) :
        (DepthOf(idx) < max_depth /\ DepthOf(c) < max_depth)
            => \/ HasTwoChildren(idx) /\ HasFourChildren(c)
               \/ HasFourChildren(idx) /\ HasTwoChildren(c)

\* C18 as stated: in the tree built for a cubic aabb the kinds alternate, so
\* along every root-to-leaf path the cells of depth < max_depth alternate
\* between exactly 2 and exactly 4 children.
AlternationAsStated ==
    (TreeBuilt /\ IsCubic)
        => KindsAlternate /\ \A idx \in CellIndices : CountsAlternate(idx)

\* C18: alternation of subdivision kinds.  In the tree built for a cubic
\* aabb the kinds alternate, so along every path the cells of depth 1 to
\* max_depth - 1 alternate between exactly 2 and exactly 4 children, starting
\* with 2 at depth 1; the root has 2 children as well.
Alternation ==
    (TreeBuilt /\ IsCubic)
        => /\ KindsAlternate
           /\ \A idx \in CellIndices : DepthOf(idx) >= 1 => CountsAlternate(idx)
           /\ HasTwoChildren(0)
           /\ \A idx \in LevelOneCells :
                 /\ isHalfCube(PrismOf(idx))
                 /\ max_depth >= 2 => HasTwoChildren(idx)

\* the tree of a cube holds a path of cells of depth 1, 2 and 3 with 2, 4
\* and 2 children
AlternationWitness ==
    /\ TreeBuilt
    /\ IsCubic
    /\ \E i1 \in LevelOneCells : \E i2 \in ChildrenOf(i1) : \E i3 \in ChildrenOf(i2) :
          /\ HasTwoChildren(i1) /\ isHalfCube(PrismOf(i1))
          /\ HasFourChildren(i2) /\ isQuarterCube(PrismOf(i2))
          /\ HasTwoChildren(i3) /\ isHalfCube(PrismOf(i3))

\* no element occurs twice in seq
NoRepeats(seq) == \A i, j \in 1..Len(seq) : i # j => seq[i] # seq[j]

\* C19: createMinimalDensityPattern subdivides each cell at most once.
\* subdivide is never running on a cell whose is_subdivided is already true
\* and no cell has been handed to subdivide twice; the work queue never
\* holds a cell twice.
SubdividedAtMostOnce ==
    /\ pc = "subdivide" => ~CellAt(cell_data, to_be_subdivided_idx).is_subdivided
    /\ NoRepeats(subdivided_order)
    /\ NoRepeats(all_to_be_subdivided)

\* the pattern has finished after eight or more subdivide calls; a cell that
\* was pushed to the front as a constrainer, ahead of three or more queued
\* cells, has been subdivided, and so has the cell it constrained
SubdividedAtMostOnceWitness ==
    /\ pc = "pattern_done"
    /\ Len(subdivided_order) >= 8
    /\ \E n \in 1..Len(escalations) :
          /\ Len(escalations[n].behind) >= 3
          /\ \E k \in 1..Len(escalations[n].constrainers) :
                CellAt(cell_data, escalations[n].constrainers[k]).is_subdivided
          /\ CellAt(cell_data, escalations[n].cell).is_subdivided

\* length of the z interval the prisms of two cells share (negative when
\* they are apart)
SharedHeight(i, j) ==
    Min(PrismOf(i).z_range.max, PrismOf(j).z_range.max)
        - Max(PrismOf(i).z_range.min, PrismOf(j).z_range.min)

\* C20: after any sequence of subdivide calls made by
\* createMinimalDensityPattern, every LEFT or RIGHT link joins two cells
\* whose prism z-ranges share an interval of positive length.
SidewaysLinksOverlapInZ ==
    BetweenSubdivisions
        => \A idx \in CellIndices : \A side \in {LEFT, RIGHT} :
             \A n \in 1..Len(LinksOf(idx, side)) :
                 SharedHeight(idx, LinksOf(idx, side)[n].to_index) > 0

\* the last slicing call was advanceSequence with a target inside the box
AdvancedInsideBox ==
    /\ last_call.op = "advanceSequence"
    /\ aabb.min.z <= last_call.new_z
    /\ last_call.new_z <= aabb.max.z

\* C21: for every new_z in [aabb.min.z, aabb.max.z] both assertions of
\* advanceSequence hold: every cell it replaces has a non-empty UP list and
\* at least one of its UP neighbours differs from the cell before and the
\* cell after and is inserted.
AdvanceAssertionsHold ==
    AdvancedInsideBox => last_call.failed = {}

\* cell i has a RIGHT link to cell j
HasRightLink(i, j) ==
    \E n \in 1..Len(LinksOf(i, RIGHT)) : LinksOf(i, RIGHT)[n].to_index = j

\* every cell of the sequence has a RIGHT link to the next one
IsRightChain(sequence) ==
    \A k \in 1..(Len(sequence) - 1) : HasRightLink(sequence[k], sequence[k + 1])

\* C22: the walker sequence is a chain of RIGHT links.  After
\* getBottomSequence and after every advanceSequence call each cell of
\* walker.layer_sequence has a RIGHT link to the cell that follows it (a
\* call that has stepped before the beginning of the list, line 697, has no
\* defined result).
SequenceIsRightChain ==
    (/\ pc = "slicing"
     /\ last_call.op \in {"getBottomSequence", "advanceSequence"}
     /\ ~undefined_behaviour)
        => IsRightChain(walker.layer_sequence)

\* a cell of the sequence before the last call had two or more UP neighbours
\* that are now consecutive cells of the sequence
ReplacedByTwo ==
    \E b \in 1..Len(last_call.before) :
        \E k \in 1..(Len(walker.layer_sequence) - 1) :
            LET up == ToIndices(LinksOf(last_call.before[b], UP))
            IN  /\ Len(up) >= 2
                /\ last_call.before[b] \notin {walker.layer_sequence[n] :
                                                  n \in 1..Len(walker.layer_sequence)}
                /\ walker.layer_sequence[k] = up[1]
                /\ walker.layer_sequence[k + 1] = up[2]

\* advanceSequence has returned inside the box after replacing three or more
\* cells, one of them by two upstairs neighbours, without a failed assertion
SequenceIsRightChainWitness ==
    /\ pc = "slicing"
    /\ AdvancedInsideBox
    /\ last_call.failed = {}
    /\ last_call.replaced >= 3
    /\ Len(walker.layer_sequence) >= 5
    /\ ReplacedByTwo

\* C23: after getBottomSequence and after every advanceSequence call no cell
\* appears more than once in walker.layer_sequence (a call that has stepped
\* before the beginning of the list, line 697, has no defined result).
SequenceHasNoDuplicates ==
    (/\ pc = "slicing"
     /\ last_call.op \in {"getBottomSequence", "advanceSequence"}
     /\ ~undefined_behaviour)
        => NoRepeats(walker.layer_sequence)

\* the cells of a sequence
CellsIn(sequence) == {sequence[k] : k \in 1..Len(sequence)}

\* two consecutive cells of the sequence before the last call shared an
\* upstairs neighbour; both have been replaced and the neighbour is in the
\* sequence
SharedNeighbourInserted ==
    \E b \in 1..(Len(last_call.before) - 1) :
        \E u \in CellsIn(ToIndices(LinksOf(last_call.before[b], UP))) :
            /\ u \in CellsIn(ToIndices(LinksOf(last_call.before[b + 1], UP)))
            /\ u \in CellsIn(walker.layer_sequence)
            /\ last_call.before[b] \notin CellsIn(walker.layer_sequence)
            /\ last_call.before[b + 1] \notin CellsIn(walker.layer_sequence)

\* advanceSequence has returned inside the box with three or more cells
\* after replacing two consecutive cells that shared an upstairs neighbour
SequenceHasNoDuplicatesWitness ==
    /\ pc = "slicing"
    /\ AdvancedInsideBox
    /\ ~undefined_behaviour
    /\ Len(walker.layer_sequence) >= 3
    /\ SharedNeighbourInserted

\* the point lies on the segment, end points included
OnSegment(p, seg) ==
    /\ cross(SegVector(seg), PointSub(p, seg.from)) = 0
    /\ dot(SegVector(seg), PointSub(p, seg.from)) >= 0
    /\ dot(SegVector(seg), PointSub(p, seg.from)) <= vSize2(SegVector(seg))

\* a segment of positive length that lies on another one
LiesOn(part, seg) ==
    part.from # part.to /\ OnSegment(part.from, seg) /\ OnSegment(part.to, seg)

\* the segment joins the new corner of the children and the straight corner
\* of the parent
IsInterface(seg, t) ==
    {seg.from, seg.to} = {PointDiv(PointAdd(t.a, t.b), 2), t.straight_corner}

BottomLeaves ==
    {idx \in CellIndices :
        IsPatternLeaf(idx) /\ PrismOf(idx).z_range.min = aabb.min.z}

\* C25: after createMinimalDensityPattern, getBottomSequence leaves no
\* bottom cell out: every leaf of the subdivided tree whose z_range.min is
\* aabb.min.z is in the returned sequence.
BottomSequenceComplete ==
    (pc = "slicing" /\ last_call.op = "getBottomSequence")
        => BottomLeaves \subseteq CellsIn(walker.layer_sequence)

====
